---- MODULE Spec2Model ----
(***************************************************************************)
(* Model of src/utils/alignment.py (PMGen): the FASTA utilities, the       *)
(* MAFFT coverage filter, the class II chain pairing, the structure-input  *)
(* builder and the pseudo-sequence extractor.  Every function is a small   *)
(* sequential state machine; each has its own specification (SpecLongest,  *)
(* SpecFilter, ...) in which the variables of the other functions rest.    *)
(* Residue strings, file names and identifiers are sequences of one-       *)
(* character strings, so that len(), indexing, replace() and the `in`      *)
(* substring test are computed as Python computes them.                    *)
(***************************************************************************)
EXTENDS Integers, Sequences, FiniteSets, TLC

VARIABLES
    \* find_longest_sequence
    fasta_file, fl_i, longest_seq, longest_id, max_length, fl_pc,
    \* filter_mafft_alignment
    alignment, ref_seq_id, ref_seq_length, coverage_threshold,
    filtered_sequences, fm_i, fm_pc, filtered_output, kept,
    \* create_parsefold_input_from_representatives
    cp_pc, cp_calls, cp_args, cp_listing, list_of_dir, peptides, cp_mhc_type,
    num0, num, DF_rows, cp_fi, cp_ri, cp_pi, batch, expected_num, threaded,
    \* mhc2_cluster_combination_seqs
    pr_pc, files, pr_fasta, pr_si, pr_ki, pr_vi, alpha, outputs, total_len, stats,
    \* match_pseudoseq
    df, mp_pc, mp_row, enum, DF, FAILED, scratch, aln, mhc_position, DF_table,
    tsv_out, raised_at, log

longestVars == <<fasta_file, fl_i, longest_seq, longest_id, max_length, fl_pc>>
filterVars == <<alignment, ref_seq_id, ref_seq_length, coverage_threshold,
                filtered_sequences, fm_i, fm_pc, filtered_output, kept>>
parseVars == <<cp_pc, cp_calls, cp_args, cp_listing, list_of_dir, peptides, cp_mhc_type,
               num0, num, DF_rows, cp_fi, cp_ri, cp_pi, batch, expected_num, threaded>>
pairVars == <<pr_pc, files, pr_fasta, pr_si, pr_ki, pr_vi, alpha, outputs, total_len, stats>>
matchVars == <<df, mp_pc, mp_row, enum, DF, FAILED, scratch, aln, mhc_position, DF_table,
               tsv_out, raised_at, log>>
vars == <<longestVars, filterVars, parseVars, pairVars, matchVars>>

\* What each function leaves alone: the state of the others.
notLongest == <<filterVars, parseVars, pairVars, matchVars>>
notFilter == <<longestVars, parseVars, pairVars, matchVars>>
notParse == <<longestVars, filterVars, pairVars, matchVars>>
notPair == <<longestVars, filterVars, parseVars, matchVars>>
notMatch == <<longestVars, filterVars, parseVars, pairVars>>

----------------------------------------------------------------------------
(* Generic helpers *)

\* All sequences over alphabet S of length 0..n.
SeqsUpTo(S, n) == UNION {[1..k -> S] : k \in 0..n}

\* The sequence made of n copies of x.
Rep(x, n) == [i \in 1..n |-> x]

\* s with the elements equal to c removed: Python's str.replace(c, "") for
\* a one-character c.
SelectSeq2(s, c) == SelectSeq(s, LAMBDA x : x # c)

\* The decimal digit d as a character.
DigitChar(d) ==
    CASE d = 0 -> "0" [] d = 1 -> "1" [] d = 2 -> "2" [] d = 3 -> "3"
      [] d = 4 -> "4" [] d = 5 -> "5" [] d = 6 -> "6" [] d = 7 -> "7"
      [] d = 8 -> "8" [] d = 9 -> "9"

RECURSIVE Str(_)
\* Python's str(n) for an integer n >= 0: its decimal digits.
Str(n) == IF n < 10 THEN <<DigitChar(n)>> ELSE Append(Str(n \div 10), DigitChar(n % 10))

\* Python's `sub in s` on strings.
IsSubstr(sub, s) ==
    \E k \in 0..(Len(s) - Len(sub)) : SubSeq(s, k + 1, k + Len(sub)) = sub

\* The first place where sub occurs in s (sub in s).
FirstIndex(sub, s) ==
    CHOOSE k \in 1..(Len(s) - Len(sub) + 1) :
        /\ SubSeq(s, k, k + Len(sub) - 1) = sub
        /\ \A i \in 1..(k - 1) : SubSeq(s, i, i + Len(sub) - 1) # sub

RECURSIVE Split(_, _)
\* Python's s.split(sep) for a non-empty separator.
Split(s, sep) ==
    IF ~IsSubstr(sep, s) THEN <<s>>
    ELSE LET k == FirstIndex(sep, s)
         IN  <<SubSeq(s, 1, k - 1)>> \o Split(SubSeq(s, k + Len(sep), Len(s)), sep)

RECURSIVE Replace(_, _, _)
\* Python's s.replace(old, new) for a non-empty old.
Replace(s, old, new) ==
    IF ~IsSubstr(old, s) THEN s
    ELSE LET k == FirstIndex(old, s)
         IN  SubSeq(s, 1, k - 1) \o new \o Replace(SubSeq(s, k + Len(old), Len(s)), old, new)

RECURSIVE Join(_, _)
\* Python's sep.join(parts).
Join(parts, sep) ==
    IF parts = <<>> THEN <<>>
    ELSE IF Len(parts) = 1 THEN parts[1]
    ELSE parts[1] \o sep \o Join(Tail(parts), sep)

----------------------------------------------------------------------------
(* find_longest_sequence, lines 32-43 *)

MaxRecords == 3
MaxLen == 2
Residues == {"A", "C"}

\* record.description of the record at place i of the parsed FASTA.
DescriptionAt(i) == <<"r">> \o Str(i)

\* The inputs: every list of up to maxRecords records; a record is a
\* description and a residue string of 0..maxLen residues (only its length
\* is read; two strings of each length let a tie be told apart).
LongestInputs(maxRecords, maxLen) ==
    UNION {{[i \in 1..n |-> [description |-> DescriptionAt(i), seq |-> ss[i]]] :
                ss \in [1..n -> {Rep(c, k) : c \in Residues, k \in 0..maxLen}]} :
              n \in 0..maxRecords}

LongestIdle ==
    /\ fasta_file = <<>>
    /\ fl_i = 0
    /\ longest_seq = <<>>
    /\ longest_id = <<>>
    /\ max_length = 0
    /\ fl_pc = "idle"

LongestInit ==
    /\ fasta_file \in LongestInputs(MaxRecords, MaxLen)
    /\ fl_i = 1
    /\ longest_seq = <<>>
    /\ longest_id = <<>>
    /\ max_length = 0
    /\ fl_pc = "loop"

\* A plausible slip: >= lets a later record of equal length win the tie.
IsLongerOrEqual(n, m) == n >= m

\* Line 38: if len(record.seq) > max_length.
IsLonger(n, m) == n > m

\* One pass of the for loop, lines 37-41.
LongestStep ==
    /\ fl_pc = "loop"
    /\ fl_i <= Len(fasta_file)
    /\ LET record == fasta_file[fl_i] IN
         IF IsLonger(Len(record.seq), max_length)
         THEN /\ max_length' = Len(record.seq)
              /\ longest_seq' = record.seq
              /\ longest_id' = record.description
         ELSE UNCHANGED <<max_length, longest_seq, longest_id>>
    /\ fl_i' = fl_i + 1
    /\ UNCHANGED <<fasta_file, fl_pc>>
    /\ UNCHANGED notLongest

\* Line 43: return longest_id, longest_seq.
LongestReturn ==
    /\ fl_pc = "loop"
    /\ fl_i > Len(fasta_file)
    /\ fl_pc' = "returned"
    /\ UNCHANGED <<fasta_file, fl_i, longest_seq, longest_id, max_length>>
    /\ UNCHANGED notLongest

LongestNext == LongestStep \/ LongestReturn

----------------------------------------------------------------------------
(* Python float arithmetic (IEEE 754 binary64, round to nearest even) for   *)
(* the two operations of compute_coverage, line 120: int / int and          *)
(* float * 100.  A positive float is [zero |-> FALSE, exp |-> e,            *)
(* mant |-> b], b the MantissaBits bits of the significand, first bit 1:    *)
(* its value is (b as an integer) * 2^(e - MantissaBits + 1).  Only small   *)
(* integers are used: the quotient's bits come from modular arithmetic,     *)
(* the product from limbs of LimbBits bits.                                 *)

MantissaBits == 53
LimbBits == 14

FloatZero == [zero |-> TRUE, exp |-> 0, mant |-> <<>>]

RECURSIVE Pow2(_)
Pow2(k) == IF k = 0 THEN 1 ELSE 2 * Pow2(k - 1)

RECURSIVE Pow2Mod(_, _)
\* 2^k mod m, by repeated squaring.
Pow2Mod(k, m) ==
    IF k = 0 THEN 1 % m
    ELSE LET h == Pow2Mod(k \div 2, m)
             sq == (h * h) % m
         IN  IF k % 2 = 0 THEN sq ELSE (2 * sq) % m

RECURSIVE Norm(_, _, _)
\* n/d = (num/den) * 2^exp with den <= num < 2*den  (n, d >= 1).
Norm(n, d, e) ==
    IF n < d THEN Norm(2 * n, d, e - 1)
    ELSE IF n >= 2 * d THEN Norm(n, 2 * d, e + 1)
    ELSE [num |-> n, den |-> d, exp |-> e]

\* Bit i (1 is the first) of the binary expansion of a/b, b <= a < 2*b:
\* floor(a * 2^(i-1) / b) mod 2.
QuotientBit(a, b, i) ==
    IF (a * Pow2Mod(i - 1, 2 * b)) % (2 * b) >= b THEN 1 ELSE 0

\* bits + 1 on a fixed width; carry says whether it overflowed.
AddOne(bits) ==
    [bits |-> [i \in 1..Len(bits) |->
                  IF \A j \in (i + 1)..Len(bits) : bits[j] = 1
                  THEN 1 - bits[i] ELSE bits[i]],
     carry |-> IF \A j \in 1..Len(bits) : bits[j] = 1 THEN 1 ELSE 0]

\* Round to nearest, ties to even: bits are the kept bits, guard the first
\* dropped bit, sticky whether any later dropped bit is 1.
RoundEven(bits, e, guard, sticky) ==
    IF guard = 1 /\ (sticky \/ bits[Len(bits)] = 1)
    THEN LET r == AddOne(bits) IN
         IF r.carry = 1
         THEN [zero |-> FALSE, exp |-> e + 1, mant |-> <<1>> \o SubSeq(r.bits, 1, Len(bits) - 1)]
         ELSE [zero |-> FALSE, exp |-> e, mant |-> r.bits]
    ELSE [zero |-> FALSE, exp |-> e, mant |-> bits]

\* Python's n / d for integers n >= 0, d >= 1.
FloatDiv(n, d) ==
    IF n = 0 THEN FloatZero
    ELSE LET q == Norm(n, d, 0)
             m == [i \in 1..MantissaBits |-> QuotientBit(q.num, q.den, i)]
             g == QuotientBit(q.num, q.den, MantissaBits + 1)
             st == (q.num * Pow2Mod(MantissaBits, q.den)) % q.den # 0
         IN  RoundEven(m, q.exp, g, st)

RECURSIVE BitsToInt(_)
\* The integer whose binary digits are bits (at most LimbBits of them).
BitsToInt(bits) ==
    IF bits = <<>> THEN 0
    ELSE 2 * BitsToInt(SubSeq(bits, 1, Len(bits) - 1)) + bits[Len(bits)]

\* bits as limbs of LimbBits bits, the first limb padded with leading zeros.
LimbsOf(bits) ==
    LET pad == (LimbBits - (Len(bits) % LimbBits)) % LimbBits
        p == [i \in 1..pad |-> 0] \o bits
    IN  [l \in 1..(Len(p) \div LimbBits) |->
            BitsToInt(SubSeq(p, (l - 1) * LimbBits + 1, l * LimbBits))]

RECURSIVE MulLimbs(_, _, _)
\* The limbs of (limbs as an integer) * c + carry; one limb more than limbs.
MulLimbs(limbs, c, carry) ==
    IF limbs = <<>> THEN <<carry>>
    ELSE LET n == Len(limbs)
             t == limbs[n] * c + carry
         IN  Append(MulLimbs(SubSeq(limbs, 1, n - 1), c, t \div Pow2(LimbBits)),
                    t % Pow2(LimbBits))

\* The bits of limbs, without leading zeros.
BitsOfLimbs(limbs) ==
    LET all == [i \in 1..(Len(limbs) * LimbBits) |->
                   (limbs[(i - 1) \div LimbBits + 1]
                        \div Pow2(LimbBits - 1 - ((i - 1) % LimbBits))) % 2]
        ones == {i \in 1..Len(all) : all[i] = 1}
    IN  IF ones = {} THEN <<>>
        ELSE SubSeq(all, CHOOSE i \in ones : \A j \in ones : i <= j, Len(all))

\* Python's x * c for a float x >= 0 and a small integer c >= 1.
FloatMulInt(x, c) ==
    IF x.zero THEN FloatZero
    ELSE LET p == BitsOfLimbs(MulLimbs(LimbsOf(x.mant), c, 0))
             n == Len(p)
             g == IF n > MantissaBits THEN p[MantissaBits + 1] ELSE 0
             st == \E j \in (MantissaBits + 2)..n : p[j] = 1
         IN  RoundEven(SubSeq(p, 1, MantissaBits), x.exp + (n - MantissaBits), g, st)

\* floor(x) for a float 0 <= x < 2^LimbBits.
FloatFloor(x) ==
    IF x.zero \/ x.exp < 0 THEN 0 ELSE BitsToInt(SubSeq(x.mant, 1, x.exp + 1))

\* Python's x >= t for a float x >= 0 and an integer t.
FloatGeInt(x, t) == FloatFloor(x) >= t

----------------------------------------------------------------------------
(* filter_mafft_alignment, lines 92-147.  MAFFT (line 105) is external: with *)
(* --keeplength every row of its output has the reference's length, and the *)
(* reference itself is one of the rows.  The model starts after line 115,   *)
(* with the alignment read and the reference loaded.                        *)

FilterMaxLen == 2
MaxQueries == 2
\* Lengths above FilterMaxLen, taken with one query of n residues then gaps:
\* the specification's example (4 of 8) and a length where the float product
\* (n / L) * 100 is not the exact percentage.
LongRefLens == {8, 50}
\* coverage_threshold: the defaults of lines 92 and 177, their neighbours,
\* and the ends of the percentage scale.
Thresholds == {0, 50, 51, 58, 80, 100}

RefId == <<"r", "e", "f">>
QueryIds == {<<"q", "1">>, RefId}

\* Non-empty strings over S of length at most n.
NonEmptySeqs(S, n) == SeqsUpTo(S, n) \ {<<>>}

\* s with x put in at place k (1..Len(s)+1).
InsertAt(s, k, x) == SubSeq(s, 1, k - 1) \o <<x>> \o SubSeq(s, k, Len(s))

\* The runs on a reference ref: the alignment MAFFT returns holds the
\* reference row at any place among the aligned query rows.
RunsOf(ref, rows, maxQueries) ==
    UNION {{[ref_seq |-> ref, alignment |-> InsertAt(qs, k, [id |-> RefId, seq |-> ref])] :
                k \in 1..(Len(qs) + 1)} : qs \in SeqsUpTo(rows, maxQueries)}

\* Every run with a reference of up to maxLen residues (an X among them or
\* not) and up to maxQueries aligned rows over residue, X and gap.
ShortRuns(maxLen, maxQueries) ==
    UNION {RunsOf(ref, [id : QueryIds, seq : [1..Len(ref) -> {"A", "X", "-"}]], maxQueries) :
              ref \in NonEmptySeqs({"A", "X"}, maxLen)}

LongRuns(lens) ==
    UNION {{[ref_seq |-> Rep("A", L),
             alignment |-> <<[id |-> RefId, seq |-> Rep("A", L)],
                             [id |-> <<"q", "1">>, seq |-> Rep("A", n) \o Rep("-", L - n)]>>] :
                n \in 0..L} : L \in lens}

FilterIdle ==
    /\ alignment = <<>>
    /\ ref_seq_id = <<>>
    /\ ref_seq_length = 0
    /\ coverage_threshold = 0
    /\ filtered_sequences = <<>>
    /\ fm_i = 0
    /\ fm_pc = "idle"
    /\ filtered_output = <<>>
    /\ kept = <<>>

\* Lines 109-115 and 123: the alignment is read, the reference loaded.
FilterInit ==
    /\ \E run \in ShortRuns(FilterMaxLen, MaxQueries) \cup LongRuns(LongRefLens) :
          /\ alignment = run.alignment
          /\ ref_seq_length = Len(run.ref_seq)
    /\ ref_seq_id = RefId
    /\ coverage_threshold \in Thresholds
    /\ filtered_sequences = <<>>
    /\ fm_i = 1
    /\ fm_pc = "loop"
    /\ filtered_output = <<>>
    /\ kept = <<>>

\* Line 119: sum(1 for res in query_seq if res != "-").
AlignedLength(query_seq) == Cardinality({j \in 1..Len(query_seq) : query_seq[j] # "-"})

\* Lines 118-120: (aligned_length / ref_seq_length) * 100, in floats.
ComputeCoverage(query_seq, ref_len) == FloatMulInt(FloatDiv(AlignedLength(query_seq), ref_len), 100)

\* Line 132: str(record.seq).replace("-", "").replace("X", "").
StripGaps(s) == SelectSeq2(SelectSeq2(s, "-"), "X")

\* One pass of the loop, lines 124-136: the reference is kept as it is, any
\* other record is kept, stripped, if its coverage reaches the threshold.
FilterStep ==
    /\ fm_pc = "loop"
    /\ fm_i <= Len(alignment)
    /\ LET record == alignment[fm_i] IN
         IF record.id = ref_seq_id
         THEN /\ filtered_sequences' = Append(filtered_sequences, record)
              /\ kept' = Append(kept, TRUE)
         ELSE IF FloatGeInt(ComputeCoverage(record.seq, ref_seq_length), coverage_threshold)
         THEN /\ filtered_sequences' =
                    Append(filtered_sequences, [id |-> record.id, seq |-> StripGaps(record.seq)])
              /\ kept' = Append(kept, TRUE)
         ELSE /\ filtered_sequences' = filtered_sequences
              /\ kept' = Append(kept, FALSE)
    /\ fm_i' = fm_i + 1
    /\ UNCHANGED <<alignment, ref_seq_id, ref_seq_length, coverage_threshold,
                   fm_pc, filtered_output>>
    /\ UNCHANGED notFilter

\* Lines 138-147: SeqIO.write(filtered_sequences, filtered_output) and return.
FilterWrite ==
    /\ fm_pc = "loop"
    /\ fm_i > Len(alignment)
    /\ filtered_output' = filtered_sequences
    /\ fm_pc' = "returned"
    /\ UNCHANGED <<alignment, ref_seq_id, ref_seq_length, coverage_threshold,
                   filtered_sequences, fm_i, kept>>
    /\ UNCHANGED notFilter

FilterNext == FilterStep \/ FilterWrite

----------------------------------------------------------------------------
(* create_parsefold_input_from_representatives, lines 285-314, called in a  *)
(* batch as in lines 457-460: each call's rows join the batch's table.      *)

MaxCalls == 2

\* The entries a directory can hold: name, whether it is a directory, and
\* the records SeqIO.parse reads from it (id and sequence).
DirEntries ==
    <<[name |-> <<"A", "_", "r", "e", "p", ".", "f", "a", "s", "t", "a">>, isdir |-> FALSE,
       records |-> <<[id |-> <<"a">>, seq |-> <<"M">>], [id |-> <<"a", "_", "1">>, seq |-> <<"M", "K">>]>>],
      [name |-> <<"D", "_", "r", "e", "p", ".", "f", "a", "s", "t", "a">>, isdir |-> FALSE,
       records |-> <<[id |-> <<"a">>, seq |-> <<"K">>]>>],
      [name |-> <<"A", "_", "r", "e", "p", ".", "f", "a">>, isdir |-> FALSE,
       records |-> <<[id |-> <<"b">>, seq |-> <<"M">>]>>],
      [name |-> <<"A", "_", "D", ".", "f", "a", "s", "t", "a">>, isdir |-> FALSE,
       records |-> <<[id |-> <<"a">>, seq |-> <<"M", "/", "K">>], [id |-> <<"a">>, seq |-> <<"M", "K", "/", "K">>]>>],
      [name |-> <<"B", "_", "r", "e", "p", ".", "f", "a", "s", "t", "a">>, isdir |-> TRUE, records |-> <<>>],
      [name |-> <<"C", "_", "r", "e", "p", ".", "f", "a", "s", "t", "a">>, isdir |-> FALSE, records |-> <<>>]>>

\* os.listdir(fasta_dir): some of the entries, in the directory's order.
Listings == {<<>>, <<1>>, <<6>>, <<1, 4>>, <<1, 2, 3, 4, 5, 6>>}

\* (fasta_dir, iden, no_iden) of a call; an empty no_iden is None.
CallArgs ==
    {[fasta_dir |-> <<"d">>, iden |-> <<"_", "r", "e", "p">>, no_iden |-> <<>>],
     [fasta_dir |-> <<"d">>, iden |-> <<"_", "r", "e", "p">>, no_iden |-> <<"D">>],
     [fasta_dir |-> <<"c", "_", "r", "e", "p">>, iden |-> <<"_", "D">>, no_iden |-> <<>>]}

PeptideChoices == {<<>>, <<<<"M", "R", "M">>, <<"N", "L", "V">>>>}
MhcTypes == {1, 2, 3}

\* Lines 287-292: the default peptide of the declared class.
DefaultPeptides(mt) ==
    IF mt = 1 THEN <<<<"M", "R", "M", "A", "T", "P", "L", "L", "M">>>> ELSE <<<<"M", "R", "M", "A", "T", "P", "L", "L", "M", "Q", "A", "L", "P", "M">>>>

\* os.path.join(fasta_dir, i).
PathJoin(dir, name) == dir \o <<"/">> \o name

\* Lines 294-297: the names kept in list_of_dir.
InListOfDir(e, iden, no_iden) ==
    /\ IsSubstr(<<".", "f", "a", "s", "t", "a">>, e.name) \/ IsSubstr(<<".", "f", "a">>, e.name)
    /\ ~e.isdir
    /\ IsSubstr(iden, e.name)
    /\ no_iden = <<>> \/ ~IsSubstr(no_iden, e.name)

RECURSIVE FilterListing(_, _, _)
FilterListing(listing, iden, no_iden) ==
    IF listing = <<>> THEN <<>>
    ELSE (IF InListOfDir(DirEntries[Head(listing)], iden, no_iden)
          THEN <<Head(listing)>> ELSE <<>>)
         \o FilterListing(Tail(listing), iden, no_iden)

\* Line 300: '_rep' in input_fasta and '.fasta' in input_fasta, on the path.
IsRepFasta(path) == IsSubstr(<<"_", "r", "e", "p">>, path) /\ IsSubstr(<<".", "f", "a", "s", "t", "a">>, path)

\* Line 309: f'{record.id}_{num}'.
RowId(id, n) == id \o <<"_">> \o Str(n)

\* A slip that would reuse a suffix: the counter is not advanced.
NextNumStuck(n) == n

\* Line 311: num = num + 1.
NextNum(n) == n + 1

ParseIdle ==
    /\ cp_pc = "idle"
    /\ cp_calls = 0
    /\ cp_args = [fasta_dir |-> <<>>, iden |-> <<>>, no_iden |-> <<>>]
    /\ cp_listing = <<>>
    /\ list_of_dir = <<>>
    /\ peptides = <<>>
    /\ cp_mhc_type = 0
    /\ num0 = 0
    /\ num = 0
    /\ DF_rows = <<>>
    /\ cp_fi = 0
    /\ cp_ri = 0
    /\ cp_pi = 0
    /\ batch = <<>>
    /\ expected_num = 0
    /\ threaded = TRUE

ParseInit == ParseIdle

\* Lines 285-298: a call.  The first call of a batch starts the counter at
\* 0 or 1; a later call is given the counter threaded through the batch
\* (line 459: num = len(df1)) or, unthreaded, the same start again.
ParseCall ==
    /\ cp_pc \in {"idle", "returned"}
    /\ cp_calls < MaxCalls
    /\ \E a \in CallArgs, l \in Listings, ps \in PeptideChoices, mt \in MhcTypes,
          n \in {0, 1, expected_num} :
          /\ cp_calls = 0 => n \in {0, 1}
          /\ cp_calls > 0 => n \in {num0, expected_num}
          /\ cp_args' = a
          /\ cp_listing' = l
          /\ cp_mhc_type' = mt
          /\ num0' = n
          /\ num' = n
          /\ threaded' = (threaded /\ (cp_calls = 0 \/ n = expected_num))
          /\ IF mt \notin {2, 1}
             THEN /\ cp_pc' = "raised"
                  /\ UNCHANGED <<peptides, list_of_dir>>
             ELSE /\ cp_pc' = "files"
                  /\ peptides' = IF Len(ps) = 0 THEN DefaultPeptides(mt) ELSE ps
                  /\ list_of_dir' = FilterListing(l, a.iden, a.no_iden)
    /\ cp_calls' = cp_calls + 1
    /\ DF_rows' = <<>>
    /\ cp_fi' = 1
    /\ cp_ri' = 0
    /\ cp_pi' = 0
    /\ UNCHANGED <<batch, expected_num>>
    /\ UNCHANGED notParse

\* Lines 299-301: the next file; one that is not a representative FASTA by
\* line 300 is passed over.
ParseNextFile ==
    /\ cp_pc = "files"
    /\ IF cp_fi > Len(list_of_dir)
       THEN /\ cp_pc' = "concat"
            /\ UNCHANGED <<cp_fi, cp_ri>>
       ELSE IF IsRepFasta(PathJoin(cp_args.fasta_dir, DirEntries[list_of_dir[cp_fi]].name))
       THEN /\ cp_pc' = "records"
            /\ cp_ri' = 1
            /\ UNCHANGED cp_fi
       ELSE /\ cp_fi' = cp_fi + 1
            /\ UNCHANGED <<cp_pc, cp_ri>>
    /\ UNCHANGED <<cp_calls, cp_args, cp_listing, list_of_dir, peptides, cp_mhc_type,
                   num0, num, DF_rows, cp_pi, batch, expected_num, threaded>>
    /\ UNCHANGED notParse

\* Line 302: the next record of the file.
ParseNextRecord ==
    /\ cp_pc = "records"
    /\ IF cp_ri > Len(DirEntries[list_of_dir[cp_fi]].records)
       THEN /\ cp_pc' = "files"
            /\ cp_fi' = cp_fi + 1
            /\ UNCHANGED cp_pi
       ELSE /\ cp_pc' = "peptides"
            /\ cp_pi' = 1
            /\ UNCHANGED cp_fi
    /\ UNCHANGED <<cp_calls, cp_args, cp_listing, list_of_dir, peptides, cp_mhc_type,
                   num0, num, DF_rows, cp_ri, batch, expected_num, threaded>>
    /\ UNCHANGED notParse

\* Lines 303-312: the next peptide: one row is appended and num advanced.
ParseEmit ==
    /\ cp_pc = "peptides"
    /\ IF cp_pi > Len(peptides)
       THEN /\ cp_pc' = "records"
            /\ cp_ri' = cp_ri + 1
            /\ UNCHANGED <<cp_pi, DF_rows, num>>
       ELSE LET record == DirEntries[list_of_dir[cp_fi]].records[cp_ri] IN
            /\ DF_rows' = Append(DF_rows, [peptide |-> peptides[cp_pi],
                                           mhc_seq |-> record.seq,
                                           mhc_type |-> cp_mhc_type,
                                           id |-> RowId(record.id, num)])
            /\ num' = NextNum(num)
            /\ cp_pi' = cp_pi + 1
            /\ UNCHANGED <<cp_pc, cp_ri>>
    /\ UNCHANGED <<cp_calls, cp_args, cp_listing, list_of_dir, peptides, cp_mhc_type,
                   num0, cp_fi, batch, expected_num, threaded>>
    /\ UNCHANGED notParse

\* Lines 313-314: pd.concat(DF) raises on an empty list; otherwise the
\* table is returned and joins the batch (line 460).
ParseReturn ==
    /\ cp_pc = "concat"
    /\ IF DF_rows = <<>>
       THEN /\ cp_pc' = "raised"
            /\ UNCHANGED <<batch, expected_num>>
       ELSE /\ cp_pc' = "returned"
            /\ batch' = batch \o DF_rows
            /\ expected_num' = num0 + Len(DF_rows)
    /\ UNCHANGED <<cp_calls, cp_args, cp_listing, list_of_dir, peptides, cp_mhc_type,
                   num0, num, DF_rows, cp_fi, cp_ri, cp_pi, threaded>>
    /\ UNCHANGED notParse

ParseNext == ParseCall \/ ParseNextFile \/ ParseNextRecord \/ ParseEmit \/ ParseReturn

----------------------------------------------------------------------------
(* mhc2_cluster_combination_seqs, lines 243-281 *)

MaxPairRecords == 2

\* Line 251.
SPECIES == <<<<"h", "o", "m", "o">>, <<"S", "L", "A">>, <<"P", "a", "t", "r">>, <<"M", "a", "m", "u">>, <<"B", "O", "L", "A">>, <<"D", "L", "A">>>>

\* Lines 254-257: the gene pairing of a species, in the dict's order.
DICT(species) ==
    IF species = <<"h", "o", "m", "o">>
    THEN <<[key |-> <<"D", "M", "A">>, value |-> <<"D", "M", "B">>], [key |-> <<"D", "O", "A">>, value |-> <<"D", "O", "B">>],
           [key |-> <<"D", "P", "A", "1">>, value |-> <<"D", "P", "B", "1">>], [key |-> <<"D", "Q", "A", "1">>, value |-> <<"D", "Q", "B", "1">>],
           [key |-> <<"D", "R", "A">>, value |-> <<"D", "R", "B", "1", "-", "D", "R", "B", "3", "-", "D", "R", "B", "4", "-", "D", "R", "B", "5">>]>>
    ELSE <<[key |-> <<"D", "M", "A">>, value |-> <<"D", "M", "B">>], [key |-> <<"D", "O", "A">>, value |-> <<"D", "O", "B">>],
           [key |-> <<"D", "P", "A">>, value |-> <<"D", "P", "B">>], [key |-> <<"D", "Q", "A">>, value |-> <<"D", "Q", "B">>],
           [key |-> <<"D", "R", "A">>, value |-> <<"D", "R", "B">>]>>

\* path_to_cluster_representatives, and the names the directory can hold:
\* chosen ones among the first PairChoice names, and always the others
\* (a class I file and a FASTA that is no representative file).
PairDir == <<"c">>
PairNames ==
    <<<<"D", "R", "A", "-", "h", "o", "m", "o", "_", "r", "e", "p", ".", "f", "a", "s", "t", "a">>, <<"D", "R", "B", "1", "-", "h", "o", "m", "o", "_", "r", "e", "p", ".", "f", "a", "s", "t", "a">>, <<"D", "R", "B", "3", "-", "h", "o", "m", "o", "_", "r", "e", "p", ".", "f", "a", "s", "t", "a">>,
      <<"D", "R", "B", "4", "-", "h", "o", "m", "o", "_", "r", "e", "p", ".", "f", "a", "s", "t", "a">>, <<"D", "R", "B", "5", "-", "h", "o", "m", "o", "_", "r", "e", "p", ".", "f", "a", "s", "t", "a">>, <<"D", "R", "A", "-", "S", "L", "A", "_", "r", "e", "p", ".", "f", "a", "s", "t", "a">>,
      <<"D", "R", "B", "1", "-", "S", "L", "A", "_", "r", "e", "p", ".", "f", "a", "s", "t", "a">>, <<"D", "R", "A", "-", "h", "o", "m", "o", "_", "r", "e", "p", "2", ".", "f", "a", "s", "t", "a">>,
      <<"A", "-", "h", "o", "m", "o", "_", "r", "e", "p", ".", "f", "a", "s", "t", "a">>, <<"D", "R", "A", "-", "h", "o", "m", "o", "_", "a", "l", "l", ".", "f", "a", "s", "t", "a">>>>
PairChoice == 1..8

\* The records of the FASTA called name when it holds n of them.
RecordsOf(name, n) ==
    [i \in 1..n |-> [description |-> SubSeq(name, 1, 4) \o <<"*">> \o Str(i),
                     seq |-> Rep(name[3], i)]]

\* Lines 244-247: the paths of the representative class II FASTA files.
RECURSIVE RepresentativeFiles(_, _)
RepresentativeFiles(listing, iden) ==
    IF listing = <<>> THEN <<>>
    ELSE (IF /\ IsSubstr(iden, Head(listing))
             /\ IsSubstr(<<"f", "a", "s", "t", "a">>, Head(listing))
             /\ Head(listing)[1] = "D"
          THEN <<PathJoin(PairDir, Head(listing))>> ELSE <<>>)
         \o RepresentativeFiles(Tail(listing), iden)

\* Lines 259 and 265: [i for i in files if gene in i and species in i].
RECURSIVE Matching(_, _, _)
Matching(fs, gene, species) ==
    IF fs = <<>> THEN <<>>
    ELSE (IF IsSubstr(gene, Head(fs)) /\ IsSubstr(species, Head(fs))
          THEN <<Head(fs)>> ELSE <<>>)
         \o Matching(Tail(fs), gene, species)

\* A slip the claim names: the alpha records parsed once, before the loop
\* over the beta genes, so that the iterator is spent after the first.
AlphaRecordsParsedOnce(fasta, path, vi) == IF vi = 1 THEN fasta[path] ELSE <<>>

\* Line 264: alpha_rec = SeqIO.parse(alpha, "fasta"), anew for every val.
AlphaRecords(fasta, path, vi) == fasta[path]

\* Lines 272-273: one paired record.
PairedRecord(rec_a, rec_b) ==
    [header |-> rec_a.description \o <<";", ";">> \o rec_b.description,
     seq |-> rec_a.seq \o <<"/">> \o rec_b.seq]

RECURSIVE PairAll(_, _)
\* Lines 269-274: for rec_a in alpha_rec: for rec_b in SeqIO.parse(beta).
PairAll(alpha_rec, beta_rec) ==
    IF alpha_rec = <<>> THEN <<>>
    ELSE [j \in 1..Len(beta_rec) |-> PairedRecord(Head(alpha_rec), beta_rec[j])]
         \o PairAll(Tail(alpha_rec), beta_rec)

PairIdle ==
    /\ pr_pc = "idle"
    /\ files = <<>>
    /\ pr_fasta = <<>>
    /\ pr_si = 0
    /\ pr_ki = 0
    /\ pr_vi = 0
    /\ alpha = <<>>
    /\ outputs = <<>>
    /\ total_len = 0
    /\ stats = <<>>

\* Lines 243-252: the directory is listed; every chosen alpha (beta) file
\* holds na (nb) records.
PairInit ==
    /\ \E chosen \in SUBSET PairChoice, na \in 0..MaxPairRecords, nb \in 0..MaxPairRecords :
          LET listing == SelectSeq([i \in 1..Len(PairNames) |-> i],
                                   LAMBDA i : i \in chosen \/ i \notin PairChoice)
              names == [k \in 1..Len(listing) |-> PairNames[listing[k]]]
          IN  /\ files = RepresentativeFiles(names, <<"_", "r", "e", "p">>)
              /\ pr_fasta = [path \in {PathJoin(PairDir, names[k]) : k \in 1..Len(names)} |->
                                RecordsOf(SubSeq(path, Len(PairDir) + 2, Len(path)),
                                          IF path[Len(PairDir) + 4] = "A" THEN na ELSE nb)]
    /\ pr_pc = "key"
    /\ pr_si = 1
    /\ pr_ki = 1
    /\ pr_vi = 0
    /\ alpha = <<>>
    /\ outputs = <<>>
    /\ total_len = 0
    /\ stats = <<>>

\* Lines 253-262: the next (species, key): past the last key the species is
\* done (line 276), past the last species the loops are; more than one alpha
\* file fails the assertion of line 260, none skips the key.
PairKey ==
    /\ pr_pc = "key"
    /\ IF pr_si > Len(SPECIES)
       THEN /\ pr_pc' = "stats"
            /\ UNCHANGED <<pr_si, pr_ki, pr_vi, alpha>>
       ELSE IF pr_ki > Len(DICT(SPECIES[pr_si]))
       THEN /\ pr_si' = pr_si + 1
            /\ pr_ki' = 1
            /\ UNCHANGED <<pr_pc, pr_vi, alpha>>
       ELSE LET found == Matching(files, DICT(SPECIES[pr_si])[pr_ki].key, SPECIES[pr_si]) IN
            IF Len(found) > 1
            THEN /\ pr_pc' = "raised"
                 /\ UNCHANGED <<pr_si, pr_ki, pr_vi, alpha>>
            ELSE IF Len(found) = 0
            THEN /\ pr_ki' = pr_ki + 1
                 /\ UNCHANGED <<pr_pc, pr_si, pr_vi, alpha>>
            ELSE /\ alpha' = found[1]
                 /\ pr_vi' = 1
                 /\ pr_pc' = "val"
                 /\ UNCHANGED <<pr_si, pr_ki>>
    /\ UNCHANGED <<files, pr_fasta, outputs, total_len, stats>>
    /\ UNCHANGED notPair

\* Lines 263-275: the next beta gene of the key: exactly one beta file
\* (line 266), and the output FASTA of the triple is written.
PairVal ==
    /\ pr_pc = "val"
    /\ LET species == SPECIES[pr_si]
           entry == DICT(species)[pr_ki]
           vals == Split(entry.value, <<"-">>)
       IN  IF pr_vi > Len(vals)
           THEN /\ pr_ki' = pr_ki + 1
                /\ pr_pc' = "key"
                /\ UNCHANGED <<pr_vi, outputs, total_len>>
           ELSE LET alpha_rec == AlphaRecords(pr_fasta, alpha, pr_vi)
                    beta == Matching(files, vals[pr_vi], species)
                IN  IF Len(beta) # 1
                    THEN /\ pr_pc' = "raised"
                         /\ UNCHANGED <<pr_ki, pr_vi, outputs, total_len>>
                    ELSE LET written == PairAll(alpha_rec, pr_fasta[beta[1]]) IN
                         /\ outputs' = Append(outputs,
                                [key |-> entry.key, val |-> vals[pr_vi], species |-> species,
                                 records |-> written])
                         /\ total_len' = total_len + Len(written)
                         /\ pr_vi' = pr_vi + 1
                         /\ UNCHANGED <<pr_pc, pr_ki>>
    /\ UNCHANGED <<files, pr_fasta, pr_si, alpha, stats>>
    /\ UNCHANGED notPair

\* Lines 277-281: the record count of every output file.
PairStats ==
    /\ pr_pc = "stats"
    /\ stats' = [k \in 1..Len(outputs) |-> Len(outputs[k].records)]
    /\ pr_pc' = "done"
    /\ UNCHANGED <<files, pr_fasta, pr_si, pr_ki, pr_vi, alpha, outputs, total_len>>
    /\ UNCHANGED notPair

PairNext == PairKey \/ PairVal \/ PairStats

----------------------------------------------------------------------------
(* match_pseudoseq, lines 333-430.  The table of runs, the cluster files    *)
(* and the hotspot artifacts are inputs; MAFFT (line 380) is external.      *)

MaxRows == 2

\* File names of the 'file' column (line 351) and the separator of lists.
FA == <<"A", "-", "h", "o", "m", "o", "_", "c", "l", "u", "s", "t", "_", "a", "l", "l", "_", "s", "e", "q", "s", ".", "f", "a", "s", "t", "a">>
FB == <<"B", "_", "c", "l", "u", "s", "t", "_", "a", "l", "l", "_", "s", "e", "q", "s", ".", "f", "a", "s", "t", "a">>
FC == <<"C", "-", "S", "L", "A", "_", "c", "l", "u", "s", "t", "_", "a", "l", "l", "_", "s", "e", "q", "s", ".", "f", "a", "s", "t", "a">>
FM == <<"D", "-", "m", "i", "c", "e", "_", "c", "l", "u", "s", "t", "_", "a", "l", "l", "_", "s", "e", "q", "s", ".", "f", "a", "s", "t", "a">>
ListSep == <<";", ";">>

\* Identifiers of representatives and of cluster members.
R1 == <<"R", "1">>
R2 == <<"R", "2">>
R3 == <<"R", "3">>
M1 == <<"M", "1">>
M2 == <<"M", "2">>
M3 == <<"M", "3">>
M4 == <<"M", "4">>

\* The cluster-membership tables on disk (rep, member), by file name.
TsvFiles ==
    (<<"A", "-", "h", "o", "m", "o", "_", "c", "l", "u", "s", "t", "_", "c", "l", "u", "s", "t", "e", "r", ".", "t", "s", "v">> :>
        <<[rep |-> R1, member |-> M1], [rep |-> R1, member |-> M2],
          [rep |-> R2, member |-> M3], [rep |-> R1, member |-> M4]>>)
    @@ (<<"B", "_", "c", "l", "u", "s", "t", "_", "c", "l", "u", "s", "t", "e", "r", ".", "t", "s", "v">> :> <<[rep |-> R1, member |-> M1]>>)

\* The full cluster FASTA files on disk, by file name; M4 has no residues.
FastaFiles ==
    (FA :> <<[id |-> M3, seq |-> <<"C", "D">>], [id |-> M1, seq |-> <<"A", "C">>],
             [id |-> M4, seq |-> <<>>], [id |-> M2, seq |-> <<"A">>]>>)
    @@ (FB :> <<[id |-> M1, seq |-> <<"A", "C">>]>>)

\* What np.load(npzpath) finds (line 356): no file, or named arrays in key
\* order, each an N x 2 matrix given by its column 1, or not such a matrix.
NoHotspots == [exists |-> FALSE, arrays |-> <<>>]
Hotspots(arrays) == [exists |-> TRUE, arrays |-> arrays]
Matrix(col1) == [ok |-> TRUE, col1 |-> col1]
Malformed == [ok |-> FALSE, col1 |-> <<>>]

\* The rows a table of runs is made of: file list, iden, class, hotspots.
RowChoices ==
    {[file |-> FA, iden |-> <<"R", "1", "_", "0">>, mhc_type |-> 1, hot |-> Hotspots(<<Matrix(<<1, 0, 1>>)>>)],
     [file |-> FA \o ListSep \o FA, iden |-> <<"R", "1", ";", ";", "R", "2", "_", "1">>, mhc_type |-> 2,
      hot |-> Hotspots(<<Matrix(<<1, 7>>), Matrix(<<0>>)>>)],
     [file |-> FA \o ListSep \o FA, iden |-> <<"R", "1", ";", ";", "R", "1", "_", "4">>, mhc_type |-> 2,
      hot |-> Hotspots(<<Matrix(<<0>>)>>)],
     [file |-> FA, iden |-> <<"R", "1", "_", "2">>, mhc_type |-> 1, hot |-> NoHotspots],
     [file |-> FA \o ListSep \o FA, iden |-> <<"R", "1", "_", "0">>, mhc_type |-> 1,
      hot |-> Hotspots(<<Matrix(<<0>>), Matrix(<<0>>)>>)],
     [file |-> FA, iden |-> <<"R", "1", ";", ";", "R", "2", "_", "3">>, mhc_type |-> 2,
      hot |-> Hotspots(<<Matrix(<<0>>), Matrix(<<0>>)>>)],
     [file |-> FA \o ListSep \o FM, iden |-> <<"R", "1", ";", ";", "R", "1", "_", "0">>, mhc_type |-> 1,
      hot |-> Hotspots(<<Matrix(<<0>>), Matrix(<<0>>)>>)],
     [file |-> FA, iden |-> <<"R", "1", "_", "0">>, mhc_type |-> 1, hot |-> Hotspots(<<Matrix(<<5>>)>>)],
     [file |-> FB, iden |-> <<"R", "1", "_", "0">>, mhc_type |-> 1, hot |-> Hotspots(<<Matrix(<<0>>)>>)],
     [file |-> FA, iden |-> <<"R", "3", "_", "0">>, mhc_type |-> 1, hot |-> Hotspots(<<Matrix(<<0>>)>>)],
     [file |-> FM, iden |-> <<"R", "1", "_", "0">>, mhc_type |-> 1, hot |-> Hotspots(<<Matrix(<<0>>)>>)],
     [file |-> FA, iden |-> <<"R", "1", "_", "0">>, mhc_type |-> 1, hot |-> Hotspots(<<>>)],
     [file |-> FA, iden |-> <<"R", "1", "_", "0">>, mhc_type |-> 1, hot |-> Hotspots(<<Malformed>>)],
     [file |-> FC, iden |-> <<"R", "1", "_", "0">>, mhc_type |-> 1, hot |-> Hotspots(<<Matrix(<<0>>)>>)]}

\* Line 362: '_'.join(str(row['iden']).split('_')[:-1]).split(';;').
IdenOf(row) ==
    LET parts == Split(row.iden, <<"_">>)
    IN  Split(Join(SubSeq(parts, 1, Len(parts) - 1), <<"_">>), ListSep)

\* Line 358: Files.split(';;').
FileList(row) == Split(row.file, ListSep)

\* Lines 366-371: the assertions on the chain counts.
ChainCountsAgree(row) ==
    IF row.mhc_type = 2
    THEN Len(IdenOf(row)) = 2 /\ Len(FileList(row)) = 2
    ELSE Len(IdenOf(row)) = 1 /\ Len(FileList(row)) = 1

\* Lines 375-376: the members of the cluster of representative rep.
HeadersToKeep(tsv, rep) ==
    {tsv[k].member : k \in {k \in 1..Len(tsv) : tsv[k].rep = rep}}

\* A slip: records without residues are written as well.
ExtractFastaSequencesKeepEmpty(records, headers_to_keep) ==
    SelectSeq(records, LAMBDA record : record.id \in headers_to_keep)

\* extract_fasta_sequences, lines 327-330.
ExtractFastaSequences(records, headers_to_keep) ==
    SelectSeq(records, LAMBDA record : record.id \in headers_to_keep /\ Len(record.seq) > 0)

\* What MAFFT can write for the scratch FASTA: every row brought to the
\* longest row's length with gaps, at the end or at the start.
Aligned(records, atEnd) ==
    LET w == IF records = <<>> THEN 0
             ELSE CHOOSE n \in {Len(records[k].seq) : k \in 1..Len(records)} :
                      \A k \in 1..Len(records) : Len(records[k].seq) <= n
    IN  [k \in 1..Len(records) |->
            [id |-> records[k].id,
             seq |-> IF atEnd THEN records[k].seq \o Rep("-", w - Len(records[k].seq))
                     ELSE Rep("-", w - Len(records[k].seq)) \o records[k].seq]]

RECURSIVE SortedSeq(_)
\* The elements of a set of integers, ascending.
SortedSeq(S) ==
    IF S = {} THEN <<>>
    ELSE LET lo == CHOOSE x \in S : \A y \in S : x <= y
         IN  <<lo>> \o SortedSeq(S \ {lo})

\* Line 383: np.unique(arr[key][:, 1]).
NpUnique(col1) == SortedSeq({col1[k] : k \in 1..Len(col1)})

\* A slip in the bound: the last residue is never taken.
InRangeOffByOne(i, n) == i < n - 1

\* Line 395: if i < len(record.seq).
InRange(i, n) == i < n

RECURSIVE PseudoSeq(_, _)
\* Line 395: "".join(record.seq[i] for i in mhc_position if i < len(record.seq)).
PseudoSeq(seq, positions) ==
    IF positions = <<>> THEN <<>>
    ELSE (IF InRange(Head(positions), Len(seq)) THEN <<seq[Head(positions) + 1]>> ELSE <<>>)
         \o PseudoSeq(seq, Tail(positions))

\* Line 403: ";".join(map(str, mhc_position)).
JoinPositions(positions) == Join([k \in 1..Len(positions) |-> Str(positions[k])], <<";">>)

\* Lines 393-403 and 405-411: the rows collected from the aligned records.
RECURSIVE CollectRows(_, _, _, _, _)
CollectRows(records, positions, species, rep, mt) ==
    IF records = <<>> THEN <<>>
    ELSE LET record == Head(records)
             filtered_seq == PseudoSeq(record.seq, positions)
         IN  (IF record.seq # <<>> /\ filtered_seq # <<>>
              THEN <<[mhc_id |-> record.id, species |-> species, mhc_types |-> mt,
                      pseudo_sequence |-> filtered_seq, representative_id |-> rep,
                      sequence |-> record.seq,
                      repres_pseudo_positions |-> JoinPositions(positions)]>>
              ELSE <<>>)
             \o CollectRows(Tail(records), positions, species, rep, mt)

\* A slip: the table is appended whether or not it has rows.
AlwaysRows(pseudo_sequence) == TRUE

\* Line 404: if len(pseudo_sequence) != 0.
HasRows(pseudo_sequence) == Len(pseudo_sequence) # 0

\* pd.concat of a list of tables.
RECURSIVE Concat(_)
Concat(frames) == IF frames = <<>> THEN <<>> ELSE Head(frames) \o Concat(Tail(frames))

\* Line 424: drop_duplicates(subset=[...]), the first of equal rows kept.
DropDuplicatesDF(rows) ==
    LET key(r) == <<r.mhc_id, r.species, r.mhc_types, r.representative_id, r.pseudo_sequence>>
        first == {k \in 1..Len(rows) : \A j \in 1..(k - 1) : key(rows[j]) # key(rows[k])}
        idx == SortedSeq(first)
    IN  [k \in 1..Len(idx) |-> rows[idx[k]]]

\* The tables of runs: up to maxRows rows.
MatchInputs(maxRows) == UNION {[1..n -> RowChoices] : n \in 0..maxRows}

\* The function is not running.
MatchIdle ==
    /\ df = <<>> /\ mp_pc = "idle" /\ mp_row = 0 /\ enum = 0
    /\ DF = <<>> /\ FAILED = <<>> /\ scratch = <<>> /\ aln = <<>>
    /\ mhc_position = <<>> /\ DF_table = <<>> /\ tsv_out = <<>>
    /\ raised_at = 0 /\ log = <<>>

\* Lines 345-346: both accumulators start empty; the loop is at row 1.
MatchInit ==
    /\ df \in MatchInputs(MaxRows)
    /\ mp_pc = "row" /\ mp_row = 1 /\ enum = 0
    /\ DF = <<>> /\ FAILED = <<>> /\ scratch = <<>> /\ aln = <<>>
    /\ mhc_position = <<>> /\ DF_table = <<>> /\ tsv_out = <<>>
    /\ raised_at = 0 /\ log = <<>>

\* What happened to the chain enum of row mp_row (history).
Logged(outcome, records, positions, rows) ==
    log' = Append(log, [row |-> mp_row, enum |-> enum, outcome |-> outcome,
                        records |-> records, positions |-> positions, rows |-> rows])

\* Lines 347-357: the next row; np.load stands before the try statement.
MatchRow ==
    /\ mp_pc = "row" /\ mp_row <= Len(df)
    /\ IF df[mp_row].hot.exists
       THEN mp_pc' = "chain" /\ enum' = 0 /\ raised_at' = raised_at
       ELSE mp_pc' = "aborted" /\ enum' = enum /\ raised_at' = 356
    /\ UNCHANGED <<df, mp_row, DF, FAILED, scratch, aln, mhc_position, DF_table, tsv_out, log>>
    /\ UNCHANGED notMatch

\* Lines 418-419: except: FAILED.append(pd.DataFrame({'iden': [iden[enum]]})).
\* iden[enum] is evaluated in the handler, where nothing catches it.
Except ==
    LET iden == IdenOf(df[mp_row])
    IN  /\ IF enum < Len(iden)
           THEN /\ FAILED' = Append(FAILED, iden[enum + 1])
                /\ enum' = enum + 1 /\ mp_pc' = "chain" /\ raised_at' = raised_at
                /\ Logged("caught", <<>>, <<>>, <<>>)
           ELSE /\ mp_pc' = "aborted" /\ raised_at' = 419
                /\ UNCHANGED <<FAILED, enum, log>>
        /\ UNCHANGED <<df, mp_row, DF, DF_table, tsv_out>>

\* Line 358: the chains of the row are exhausted.
ChainDone ==
    /\ mp_pc = "chain" /\ enum >= Len(FileList(df[mp_row]))
    /\ mp_row' = mp_row + 1 /\ mp_pc' = "row"
    /\ UNCHANGED <<df, enum, DF, FAILED, scratch, aln, mhc_position, DF_table, tsv_out,
                   raised_at, log>>
    /\ UNCHANGED notMatch

\* Line 364: a chain whose file name contains 'mice' is passed over.
ChainSkipMice ==
    /\ mp_pc = "chain" /\ enum < Len(FileList(df[mp_row]))
    /\ IsSubstr(<<"m", "i", "c", "e">>, FileList(df[mp_row])[enum + 1])
    /\ enum' = enum + 1
    /\ Logged("skipped", <<>>, <<>>, <<>>)
    /\ UNCHANGED <<df, mp_pc, mp_row, DF, FAILED, scratch, aln, mhc_position, DF_table,
                   tsv_out, raised_at>>
    /\ UNCHANGED notMatch

\* Lines 365-378: the assertions, the membership table, the scratch FASTA.
ChainExtract ==
    /\ mp_pc = "chain" /\ enum < Len(FileList(df[mp_row]))
    /\ LET f == FileList(df[mp_row])[enum + 1]
           iden == IdenOf(df[mp_row])
           tsvfile == Replace(f, <<"c", "l", "u", "s", "t", "_", "a", "l", "l", "_", "s", "e", "q", "s", ".", "f", "a", "s", "t", "a">>, <<"c", "l", "u", "s", "t", "_", "c", "l", "u", "s", "t", "e", "r", ".", "t", "s", "v">>)
       IN  /\ ~IsSubstr(<<"m", "i", "c", "e">>, f)
           /\ IF ~ChainCountsAgree(df[mp_row]) \/ tsvfile \notin DOMAIN TsvFiles
              THEN Except /\ UNCHANGED scratch
              ELSE IF f \notin DOMAIN FastaFiles
              THEN Except /\ scratch' = <<>>
              ELSE /\ scratch' = ExtractFastaSequences(FastaFiles[f],
                                     HeadersToKeep(TsvFiles[tsvfile], iden[enum + 1]))
                   /\ mp_pc' = "mafft"
                   /\ UNCHANGED <<df, mp_row, enum, DF, FAILED, DF_table, tsv_out,
                                  raised_at, log>>
    /\ UNCHANGED <<aln, mhc_position>>
    /\ UNCHANGED notMatch

\* Lines 379-380: MAFFT re-aligns the scratch FASTA, or exits non-zero.
ChainMafft ==
    /\ mp_pc = "mafft"
    /\ \E outcome \in {"raised", "gaps_at_end", "gaps_at_start"} :
          IF outcome = "raised"
          THEN Except /\ aln' = <<>>
          ELSE /\ aln' = Aligned(scratch, outcome = "gaps_at_end")
               /\ mp_pc' = "slice"
               /\ UNCHANGED <<df, mp_row, enum, DF, FAILED, DF_table, tsv_out,
                              raised_at, log>>
    /\ UNCHANGED <<scratch, mhc_position>>
    /\ UNCHANGED notMatch

\* Lines 382-414: the positions of the chain, the pseudo-sequences, and the
\* table appended to DF or the row appended to FAILED.
ChainSlice ==
    /\ mp_pc = "slice"
    /\ LET row == df[mp_row]
           f == FileList(row)[enum + 1]
           iden == IdenOf(row)
           arrays == row.hot.arrays
           parts == Split(f, <<"-">>)
       IN  IF enum >= Len(arrays) \/ ~arrays[enum + 1].ok
           THEN Except /\ UNCHANGED mhc_position
           ELSE LET positions == NpUnique(arrays[enum + 1].col1)
                    named == Len(parts) >= 2
                    species == IF named THEN Split(parts[2], <<"_">>)[1] ELSE <<>>
                    pseudo_sequence == CollectRows(aln, positions, species,
                                                   iden[enum + 1], row.mhc_type)
                IN  /\ mhc_position' = positions
                    /\ IF pseudo_sequence # <<>> /\ ~named
                       THEN Except
                       ELSE /\ IF HasRows(pseudo_sequence)
                               THEN /\ DF' = Append(DF, pseudo_sequence)
                                    /\ FAILED' = FAILED
                                    /\ Logged("success", aln, positions, pseudo_sequence)
                               ELSE /\ FAILED' = Append(FAILED, iden[enum + 1])
                                    /\ DF' = DF
                                    /\ Logged("failure", aln, positions, <<>>)
                            /\ enum' = enum + 1 /\ mp_pc' = "chain"
                            /\ UNCHANGED <<df, mp_row, DF_table, tsv_out, raised_at>>
    /\ UNCHANGED <<scratch, aln>>
    /\ UNCHANGED notMatch

\* Lines 421-423: DF = pd.concat(DF) raises on an empty list; DF.tsv.
PersistDF ==
    /\ mp_pc = "row" /\ mp_row > Len(df)
    /\ IF DF = <<>>
       THEN mp_pc' = "aborted" /\ raised_at' = 422 /\ UNCHANGED <<DF_table, tsv_out>>
       ELSE /\ DF_table' = Concat(DF)
            /\ tsv_out' = Append(tsv_out, [name |-> "DF.tsv", rows |-> DF_table'])
            /\ mp_pc' = "DF_noduplicate" /\ raised_at' = raised_at
    /\ UNCHANGED <<df, mp_row, enum, DF, FAILED, scratch, aln, mhc_position, log>>
    /\ UNCHANGED notMatch

\* Lines 424-425: DF = DF.drop_duplicates(...); DF_noduplicate.tsv.
PersistDFNoDuplicate ==
    /\ mp_pc = "DF_noduplicate"
    /\ DF_table' = DropDuplicatesDF(DF_table)
    /\ tsv_out' = Append(tsv_out, [name |-> "DF_noduplicate.tsv", rows |-> DF_table'])
    /\ mp_pc' = "FAILED"
    /\ UNCHANGED <<df, mp_row, enum, DF, FAILED, scratch, aln, mhc_position, raised_at, log>>
    /\ UNCHANGED notMatch

\* A slip: an empty list of failures is written as an empty table.
PersistFailedEmptyTable ==
    /\ mp_pc = "FAILED"
    /\ tsv_out' = Append(tsv_out, [name |-> "FAILED.tsv", rows |-> FAILED])
    /\ mp_pc' = "FAILED_noduplicate"
    /\ UNCHANGED <<df, mp_row, enum, DF, FAILED, scratch, aln, mhc_position, DF_table,
                   raised_at, log>>
    /\ UNCHANGED notMatch

\* Lines 426-427: FAILED = pd.concat(FAILED) raises on an empty list; FAILED.tsv.
PersistFailed ==
    /\ mp_pc = "FAILED"
    /\ IF FAILED = <<>>
       THEN mp_pc' = "aborted" /\ raised_at' = 426 /\ UNCHANGED tsv_out
       ELSE /\ tsv_out' = Append(tsv_out, [name |-> "FAILED.tsv", rows |-> FAILED])
            /\ mp_pc' = "FAILED_noduplicate" /\ raised_at' = raised_at
    /\ UNCHANGED <<df, mp_row, enum, DF, FAILED, scratch, aln, mhc_position, DF_table, log>>
    /\ UNCHANGED notMatch

\* Lines 428-429: FAILED.drop_duplicates(subset=['iden']) returns a new table
\* that is not bound to anything; FAILED itself goes to FAILED_noduplicate.tsv.
PersistFailedNoDuplicate ==
    /\ mp_pc = "FAILED_noduplicate"
    /\ tsv_out' = Append(tsv_out, [name |-> "FAILED_noduplicate.tsv", rows |-> FAILED])
    /\ mp_pc' = "done"
    /\ UNCHANGED <<df, mp_row, enum, DF, FAILED, scratch, aln, mhc_position, DF_table,
                   raised_at, log>>
    /\ UNCHANGED notMatch

MatchNext ==
    \/ MatchRow \/ ChainDone \/ ChainSkipMice \/ ChainExtract \/ ChainMafft \/ ChainSlice
    \/ PersistDF \/ PersistDFNoDuplicate \/ PersistFailed \/ PersistFailedNoDuplicate

----------------------------------------------------------------------------
(* Specifications *)

InitLongest == LongestInit /\ FilterIdle /\ ParseIdle /\ PairIdle /\ MatchIdle
SpecLongest == InitLongest /\ [][LongestNext]_vars

InitFilter == FilterInit /\ LongestIdle /\ ParseIdle /\ PairIdle /\ MatchIdle
SpecFilter == InitFilter /\ [][FilterNext]_vars

InitParse == ParseInit /\ LongestIdle /\ FilterIdle /\ PairIdle /\ MatchIdle
SpecParse == InitParse /\ [][ParseNext]_vars

InitPair == PairInit /\ LongestIdle /\ FilterIdle /\ ParseIdle /\ MatchIdle
SpecPair == InitPair /\ [][PairNext]_vars

InitMatch == MatchInit /\ LongestIdle /\ FilterIdle /\ ParseIdle /\ PairIdle
SpecMatch == InitMatch /\ [][MatchNext]_vars

----------------------------------------------------------------------------
(* Claims *)

\* The first record of recs whose residue count is the greatest.
FirstLongest(recs) ==
    recs[CHOOSE i \in 1..Len(recs) :
            /\ \A j \in 1..Len(recs) : Len(recs[j].seq) <= Len(recs[i].seq)
            /\ \A j \in 1..(i - 1) : Len(recs[j].seq) < Len(recs[i].seq)]

\* C10 as stated: find_longest_sequence returns the first record of greatest
\* residue count, and the empty pair on an empty collection.
C10_ReturnsFirstLongest ==
    fl_pc = "returned" =>
        IF fasta_file = <<>>
        THEN longest_id = <<>> /\ longest_seq = <<>>
        ELSE /\ longest_id = FirstLongest(fasta_file).description
             /\ longest_seq = FirstLongest(fasta_file).seq

\* C10 amended: the first record of greatest residue count is returned when
\* some record has at least one residue; the empty pair is returned when the
\* collection is empty or every record in it has no residues.
C10_ReturnsFirstLongestNonEmpty ==
    fl_pc = "returned" =>
        IF \A j \in 1..Len(fasta_file) : Len(fasta_file[j].seq) = 0
        THEN longest_id = <<>> /\ longest_seq = <<>>
        ELSE /\ longest_id = FirstLongest(fasta_file).description
             /\ longest_seq = FirstLongest(fasta_file).seq

\* A tie between the first and a later record, decided for the first.
C10_Witness ==
    /\ fl_pc = "returned"
    /\ Len(fasta_file) >= 2
    /\ \E j \in 2..Len(fasta_file) :
          /\ Len(fasta_file[j].seq) = Len(fasta_file[1].seq)
          /\ fasta_file[j].seq # fasta_file[1].seq
    /\ max_length = Len(fasta_file[1].seq)
    /\ max_length > 0
    /\ longest_id = fasta_file[1].description

\* The (record, peptide) combinations of a call, in the order of the files
\* of list_of_dir that line 300 accepts, their records, and the peptides.
RECURSIVE CombosOfRecords(_, _)
CombosOfRecords(recs, peps) ==
    IF recs = <<>> THEN <<>>
    ELSE [k \in 1..Len(peps) |-> [record |-> Head(recs), peptide |-> peps[k]]]
         \o CombosOfRecords(Tail(recs), peps)

RECURSIVE CombosOfFiles(_, _, _)
CombosOfFiles(fs, dir, peps) ==
    IF fs = <<>> THEN <<>>
    ELSE (IF IsRepFasta(PathJoin(dir, DirEntries[Head(fs)].name))
          THEN CombosOfRecords(DirEntries[Head(fs)].records, peps)
          ELSE <<>>)
         \o CombosOfFiles(Tail(fs), dir, peps)

\* The identifiers generated so far in the batch: the returned tables and
\* the rows of the call in progress.
BatchIds ==
    LET rows == batch \o (IF cp_pc = "returned" THEN <<>> ELSE DF_rows)
    IN  [k \in 1..Len(rows) |-> rows[k].id]

\* C9: a call returns exactly one row per (representative record, peptide)
\* combination, in order; the k-th row's identifier is the record's id, '_'
\* and the call's starting counter plus k - 1; and while every call of the
\* batch was started with the previous start plus the previous row count,
\* all identifiers of the batch are pairwise distinct.
C9_OneRowPerComboAndDistinctIds ==
    LET combos == CombosOfFiles(list_of_dir, cp_args.fasta_dir, peptides) IN
    /\ cp_pc \in {"files", "records", "peptides", "concat", "returned"} =>
          /\ Len(DF_rows) <= Len(combos)
          /\ num = num0 + Len(DF_rows)
          /\ \A k \in 1..Len(DF_rows) :
                /\ DF_rows[k].peptide = combos[k].peptide
                /\ DF_rows[k].mhc_seq = combos[k].record.seq
                /\ DF_rows[k].mhc_type = cp_mhc_type
                /\ DF_rows[k].id = combos[k].record.id \o <<"_">> \o Str(num0 + k - 1)
    /\ cp_pc \in {"concat", "returned"} => Len(DF_rows) = Len(combos)
    /\ threaded => \A i, j \in 1..Len(BatchIds) : i # j => BatchIds[i] # BatchIds[j]

\* A second, threaded call has returned rows whose record ids the first
\* call's rows share, after both calls emitted rows.
C9_Witness ==
    /\ cp_pc = "returned"
    /\ cp_calls = 2
    /\ threaded
    /\ num0 > 0
    /\ Len(DF_rows) >= 2
    /\ Len(batch) > Len(DF_rows)
    /\ Len(peptides) = 2
    /\ DF_rows[1].mhc_seq = batch[1].mhc_seq

\* The representative files of a gene and a species.
FilesOf(gene, species) ==
    {files[k] : k \in {k \in 1..Len(files) :
                          IsSubstr(gene, files[k]) /\ IsSubstr(species, files[k])}}

\* The output o holds exactly the pairs of the records of a with those of
\* b, alpha-major, with the header and the sequence of lines 272-273.
IsCrossProduct(o, a, b) ==
    /\ Len(o) = Len(a) * Len(b)
    /\ \A i \in 1..Len(a) : \A j \in 1..Len(b) :
          /\ o[(i - 1) * Len(b) + j].header
                = a[i].description \o <<";", ";">> \o b[j].description
          /\ o[(i - 1) * Len(b) + j].seq = a[i].seq \o <<"/">> \o b[j].seq

\* C8: every output FASTA written for a (key, val, species) triple is the
\* cross product, alpha-major, of the alpha file's and the beta file's
\* records; no triple is written twice; and when the function completes,
\* every species and key with an alpha file has the output of every beta
\* gene of the key (DRB1, DRB3, DRB4 and DRB5 for the human DRA).
C8_OutputsAreCrossProducts ==
    /\ \A k \in 1..Len(outputs) :
          LET o == outputs[k] IN
          /\ \E a \in FilesOf(o.key, o.species), b \in FilesOf(o.val, o.species) :
                IsCrossProduct(o.records, pr_fasta[a], pr_fasta[b])
          /\ \A l \in 1..Len(outputs) :
                (outputs[l].key = o.key /\ outputs[l].val = o.val
                    /\ outputs[l].species = o.species) => l = k
    /\ pr_pc \in {"stats", "done"} =>
          \A si \in 1..Len(SPECIES) : \A ki \in 1..Len(DICT(SPECIES[si])) :
              LET e == DICT(SPECIES[si])[ki]
                  vals == Split(e.value, <<"-">>)
              IN  FilesOf(e.key, SPECIES[si]) # {} =>
                      \A vi \in 1..Len(vals) : \E k \in 1..Len(outputs) :
                          /\ outputs[k].key = e.key
                          /\ outputs[k].val = vals[vi]
                          /\ outputs[k].species = SPECIES[si]

\* The function completed and wrote the four human DRA outputs, the last
\* of them, for DRB5, with two alpha records times two beta records.
C8_Witness ==
    /\ pr_pc = "done"
    /\ \E k \in 1..Len(outputs) :
          /\ outputs[k].key = <<"D", "R", "A">>
          /\ outputs[k].val = <<"D", "R", "B", "5">>
          /\ outputs[k].species = <<"h", "o", "m", "o">>
          /\ Len(outputs[k].records) = 4
          /\ k >= 4

\* C2 as stated: a record is kept iff it is the reference or
\* 100 * (non-gap positions) / (reference length) >= coverage_threshold.
C2_KeptIffCoverageReachesThreshold ==
    \A i \in 1..Len(kept) :
        kept[i] <=> \/ alignment[i].id = ref_seq_id
                    \/ 100 * AlignedLength(alignment[i].seq) >= coverage_threshold * ref_seq_length

\* C7 as stated: no sequence written to the filtered output, the reference
\* included, holds '-' or 'X'.
C7_OutputHasNoGapNorX ==
    fm_pc = "returned" =>
        \A i \in 1..Len(filtered_output) :
            \A j \in 1..Len(filtered_output[i].seq) :
                filtered_output[i].seq[j] \notin {"-", "X"}

----------------------------------------------------------------------------
(* match_pseudoseq: what the history of chains says *)

\* Row r of the table is behind the loop, or the loop died in it.
RowClosed(r) == r < mp_row \/ (r = mp_row /\ mp_pc = "aborted")

\* The entries of the history that belong to chain e of row r.
EntriesOf(r, e) == {k \in 1..Len(log) : log[k].row = r /\ log[k].enum = e}

\* The chains whose step 6 ran to its end without an exception.
Completed == {k \in 1..Len(log) : log[k].outcome \in {"success", "failure"}}

\* The aligned records of an entry that have residues.
NonEmptyRecords(entry) == SelectSeq(entry.records, LAMBDA record : record.seq # <<>>)

\* The positions that lie within a sequence.
PositionsWithin(seq, positions) ==
    {positions[k] : k \in {k \in 1..Len(positions) : positions[k] < Len(seq)}}

\* The records of an entry with residues and a position within them.
SliceableRecords(entry) ==
    SelectSeq(entry.records,
              LAMBDA record : record.seq # <<>> /\ PositionsWithin(record.seq, entry.positions) # {})

\* The j-th smallest element of a set of integers.
NthSmallest(S, j) == CHOOSE p \in S : Cardinality({q \in S : q < p}) = j - 1

\* ps has one character per position within seq, in ascending order.
IsPseudoSeqOf(ps, seq, positions) ==
    LET within == PositionsWithin(seq, positions)
    IN  /\ Len(ps) = Cardinality(within)
        /\ Len(ps) <= Len(positions)
        /\ \A j \in 1..Len(ps) : ps[j] = seq[NthSmallest(within, j) + 1]

\* The rows of the tables written under a name.
Written(name) == {tsv_out[k].rows : k \in {k \in 1..Len(tsv_out) : tsv_out[k].name = name}}

\* C1: no row makes the batch abort: if the function stops with an
\* exception at all, it does so only after the loop has visited every row.
C1_NoRowAbortsTheBatch == mp_pc = "aborted" => mp_row > Len(df)

\* C3: a row whose chain counts disagree with its class has, for every
\* chain index, a failure record and no success record once the loop has
\* left the row.
C3_MismatchYieldsFailurePerChain ==
    \A r \in 1..Len(df) :
        (RowClosed(r) /\ ~ChainCountsAgree(df[r])) =>
            /\ \A e \in 0..(Len(FileList(df[r])) - 1) :
                   \E k \in EntriesOf(r, e) : log[k].outcome \in {"failure", "caught"}
            /\ \A k \in 1..Len(log) : log[k].row = r => log[k].outcome # "success"

\* C4: FAILED_noduplicate.tsv holds every identifier of FAILED.tsv, each
\* at most once.
C4_FailedNoDuplicateIsDeduplicated ==
    \A rows \in Written("FAILED_noduplicate.tsv") :
        /\ \A i, j \in 1..Len(rows) : rows[i] = rows[j] => i = j
        /\ \A full \in Written("FAILED.tsv") :
               {rows[i] : i \in 1..Len(rows)} = {full[i] : i \in 1..Len(full)}

\* C5 as stated: a chain that has aligned records with residues adds as
\* many rows (success rows, or failure rows) as it has such records.
C5_EveryRecordContributesOneRow ==
    \A k \in Completed :
        NonEmptyRecords(log[k]) # <<>> =>
            (IF log[k].outcome = "success" THEN Len(log[k].rows) ELSE 1)
                = Len(NonEmptyRecords(log[k]))

\* C5 as the code has it: a chain whose step 6 ends without an exception
\* adds one success row per record that has a non-empty pseudo-sequence,
\* in the order of the alignment, and no failure row; if no record has
\* one, it adds a single failure row for its representative, however many
\* records there are.  The accumulators hold just these rows.
C5_RowsPerRecordOrOneFailure ==
    /\ \A k \in Completed :
           LET good == SliceableRecords(log[k])
           IN  IF good # <<>>
               THEN /\ log[k].outcome = "success"
                    /\ Len(log[k].rows) = Len(good)
                    /\ \A j \in 1..Len(good) :
                           /\ log[k].rows[j].mhc_id = good[j].id
                           /\ log[k].rows[j].sequence = good[j].seq
                           /\ log[k].rows[j].pseudo_sequence # <<>>
               ELSE log[k].outcome = "failure" /\ log[k].rows = <<>>
    /\ DF = [j \in 1..Len(DF) |->
                log[NthSmallest({k \in 1..Len(log) : log[k].outcome = "success"}, j)].rows]
    /\ Len(DF) = Cardinality({k \in 1..Len(log) : log[k].outcome = "success"})
    /\ Len(FAILED) = Cardinality({k \in 1..Len(log) : log[k].outcome \in {"failure", "caught"}})

\* A chain with two aligned records and no position within them has left
\* one failure row, and another chain has left success rows.
C5_Witness ==
    /\ \E k \in Completed :
           log[k].outcome = "failure" /\ Len(NonEmptyRecords(log[k])) >= 2
    /\ \E k \in Completed : log[k].outcome = "success" /\ Len(log[k].rows) >= 2

\* C6: the positions of a chain are ascending and unique; every pseudo-
\* sequence stored has one character per position below the length of its
\* aligned sequence, the j-th being the residue at the j-th such position;
\* positions at or beyond the length are passed over without an exception.
C6_PseudoSeqIsResiduesWithin ==
    \A k \in Completed :
        /\ \A i, j \in 1..Len(log[k].positions) :
               i < j => log[k].positions[i] < log[k].positions[j]
        /\ \A j \in 1..Len(log[k].rows) :
               IsPseudoSeqOf(log[k].rows[j].pseudo_sequence, log[k].rows[j].sequence,
                             log[k].positions)
        /\ log[k].outcome = "failure" =>
               \A j \in 1..Len(log[k].records) :
                   PositionsWithin(log[k].records[j].seq, log[k].positions) = {}

\* A success row was built from positions of which one lies beyond the
\* aligned sequence, and another from raw positions that held a duplicate.
C6_Witness ==
    /\ \E k \in Completed : \E j \in 1..Len(log[k].rows) :
           /\ Len(log[k].rows[j].pseudo_sequence) < Len(log[k].positions)
           /\ log[k].rows[j].pseudo_sequence # <<>>
    /\ \E k \in Completed : \E j \in 1..Len(log[k].rows) :
           Len(log[k].rows[j].pseudo_sequence) = 2

\* The file, the representative and the tables of the chain at hand.
ChainFile == FileList(df[mp_row])[enum + 1]
ChainRep == IdenOf(df[mp_row])[enum + 1]
ChainTsv == TsvFiles[Replace(ChainFile, <<"c", "l", "u", "s", "t", "_", "a", "l", "l", "_", "s", "e", "q", "s", ".", "f", "a", "s", "t", "a">>, <<"c", "l", "u", "s", "t", "_", "c", "l", "u", "s", "t", "e", "r", ".", "t", "s", "v">>)]
ChainFasta == FastaFiles[ChainFile]

\* The places of the full cluster FASTA whose record has residues and is a
\* member of the cluster of the chain's representative.
ClusterPlaces ==
    {i \in 1..Len(ChainFasta) :
        /\ Len(ChainFasta[i].seq) > 0
        /\ \E k \in 1..Len(ChainTsv) :
               ChainTsv[k].rep = ChainRep /\ ChainTsv[k].member = ChainFasta[i].id}

\* C11: the scratch FASTA handed to MAFFT holds exactly the records of the
\* full cluster FASTA that have residues and are members of the cluster of
\* the chain's representative, in the order of the full FASTA; it holds no
\* record of another cluster and no record without residues.
C11_ScratchIsClusterMembers ==
    mp_pc = "mafft" =>
        /\ Len(scratch) = Cardinality(ClusterPlaces)
        /\ \A j \in 1..Len(scratch) : scratch[j] = ChainFasta[NthSmallest(ClusterPlaces, j)]
        /\ \A j \in 1..Len(scratch) :
               /\ scratch[j].seq # <<>>
               /\ \A k \in 1..Len(ChainTsv) :
                      ChainTsv[k].member = scratch[j].id => ChainTsv[k].rep = ChainRep

\* The scratch FASTA of a chain holds two of the four records of a cluster
\* FASTA that also has a record of another cluster and a member without
\* residues.
C11_Witness ==
    /\ mp_pc = "mafft"
    /\ Len(scratch) = 2
    /\ \E i \in 1..Len(ChainFasta) :
           /\ ChainFasta[i].seq = <<>>
           /\ \E k \in 1..Len(ChainTsv) :
                  ChainTsv[k].rep = ChainRep /\ ChainTsv[k].member = ChainFasta[i].id
    /\ \E i \in 1..Len(ChainFasta) : \E k \in 1..Len(ChainTsv) :
           ChainTsv[k].member = ChainFasta[i].id /\ ChainTsv[k].rep # ChainRep

\* The names of the tables written so far, in the order of writing.
WrittenNames == [k \in 1..Len(tsv_out) |-> tsv_out[k].name]

\* The order in which lines 423-429 write the four tables.
PersistenceOrder == <<"DF.tsv", "DF_noduplicate.tsv", "FAILED.tsv", "FAILED_noduplicate.tsv">>

\* The loop over the rows has ended without an exception.
LoopEnded == mp_row > Len(df)

\* C12: the tables are written in the order success, deduplicated success,
\* failure, deduplicated failure, each at most once; when the loop has
\* ended with no success table collected the function stops with the
\* exception of line 422 and nothing written, whatever failures were
\* recorded; with success tables but no failure row it stops with the
\* exception of line 426 after the two success tables; it returns only
\* with both accumulators non-empty and all four tables written.
C12_PersistenceOrderAndEmptyAccumulators ==
    /\ Len(WrittenNames) <= 4
    /\ WrittenNames = SubSeq(PersistenceOrder, 1, Len(WrittenNames))
    /\ ~LoopEnded => tsv_out = <<>>
    /\ (LoopEnded /\ DF = <<>>) =>
           /\ tsv_out = <<>>
           /\ mp_pc \in {"row", "aborted"}
           /\ mp_pc = "aborted" => raised_at = 422
    /\ (LoopEnded /\ DF # <<>> /\ FAILED = <<>>) =>
           /\ mp_pc \in {"row", "DF_noduplicate", "FAILED", "aborted"}
           /\ mp_pc = "aborted" =>
                  raised_at = 426 /\ WrittenNames = SubSeq(PersistenceOrder, 1, 2)
    /\ (LoopEnded /\ mp_pc = "aborted") =>
           \/ raised_at = 422 /\ DF = <<>>
           \/ raised_at = 426 /\ DF # <<>> /\ FAILED = <<>>
    /\ mp_pc = "done" =>
           DF # <<>> /\ FAILED # <<>> /\ WrittenNames = PersistenceOrder

\* The loop recorded failures and no success: the function has stopped at
\* line 422 with no table written.
C12_Witness ==
    /\ LoopEnded /\ mp_pc = "aborted" /\ raised_at = 422
    /\ FAILED # <<>> /\ tsv_out = <<>>

====
